---- MODULE Spec2Model ----
(***************************************************************************)
(* A model of the graph_walker crate: Universe2D, its nodes, and the       *)
(* three-phase tick (update graffiti, move agents out, move agents in)     *)
(* that rayon's par_iter_mut runs node by node in any order.               *)
(*                                                                         *)
(* Numbers.  The f32 values of the code are kept in fixed point: graffiti  *)
(* in quarters, push strengths in thousandths (1000 is the float 1.0, 0 is *)
(* an underflowed exp).  A hyperparameter is a ratio <<num, den>>.         *)
(* oorandom's Rand32 is an external crate: it is modelled as a small       *)
(* linear congruential generator whose increment is left open (prng_inc),  *)
(* so every property is checked for each generator of a small family.      *)
(*                                                                         *)
(* Specifications (graph_walker).                                          *)
(*   Spec       one universe: new, set_hyper_params, and tick as steps,    *)
(*              one closure of one node at a time, in any order.           *)
(*   SpecPair   the same universe beside a second one built with the same  *)
(*              arguments and ticked by a single worker.                   *)
(*   SpecEdges  the edge loops of new, one insert at a time, for larger    *)
(*              grids than the tick is explored on.                        *)
(*   SpecIterate  a universe ticked n times beside one on which iterate(n) *)
(*              is called.                                                 *)
(*   SpecMutex  the two tests of testing.rs in which parallel closures     *)
(*              lock a mutex and add an agent to a node behind it.         *)
(*   SpecSample the calls of add_agent_to_random_cell the tests of         *)
(*              neighbour_data.rs make, for small weights and for every    *)
(*              state of the generator.                                    *)
(*   SpecIter   the calls of next() on the iterator of a Neighbours value.  *)
(* and for walker2d, SpecWalker: new, add_agents and tick as whole calls.  *)
(***************************************************************************)
EXTENDS Integers, Sequences, FiniteSets, TLC

\* ---------------------------------------------------------------- bounds
MaxSize == 3
MaxAgents == 2
MaxTicks == 2
MaxInc == 2
MaxEdgesSize == 7
MaxCalls == 4
MaxWalkerSize == 3
MaxWalkerAgents == 3
MaxDraws == 3
MaxItem == 2
MaxNext == 6

\* ------------------------------------------------------------- variables
VARIABLES
    size,                  \* Universe2D.size
    nodes,                 \* Universe2D.nodes: index -> Node
    iteration,             \* Universe2D.iteration
    hyper_params,          \* Universe2D.hyper_params
    agent_size,            \* the agent_size argument Universe2D::new was given
    prng_inc,              \* the increment of the Rand32 generator in use
    panicked,              \* a panic has unwound Universe2D::new or tick
    pc,                    \* where tick() is: "idle", "graffiti", "out", "in"
    phase_done,            \* index -> how many phases of this tick the node finished
    nodes_with_graffiti,   \* tick's clone of the nodes after phase 0
    nodes_with_agents_out, \* tick's clone of the nodes after phase 1
    tick_start,            \* the nodes as they were when tick() was last called
    other,                 \* a second universe, ticked by a single worker
    edges,                 \* the edges map Universe2D::new fills
    loop_y,                \* the y of new's edge loops
    loop_x,                \* the x of new's edge loops
    arc_node,              \* testing.rs: the Arc<Mutex<..>> and the nodes it guards
    closures,              \* testing.rs: where each closure of the for_each is
    walker,                \* walker2d: the Universe
    walker_call,           \* walker2d: the last call made on the Universe
    walker_panicked,       \* walker2d: a panic has unwound a call on the Universe
    neighbours_out,        \* neighbour_data.rs tests: the counters, weights and generator
    iter                   \* neighbour_data.rs tests: a NeighboursIntoIterator

vars == <<size, nodes, iteration, hyper_params, agent_size, prng_inc, panicked,
          pc, phase_done, nodes_with_graffiti, nodes_with_agents_out, tick_start,
          other, edges, loop_y, loop_x, arc_node, closures,
          walker, walker_call, walker_panicked, neighbours_out, iter>>

\* What belongs to the tests of neighbour_data.rs.
samples == <<neighbours_out, iter>>

\* What belongs to the mutex tests and to walker2d.
walkers == <<walker, walker_call, walker_panicked>>

apart == <<arc_node, closures, walkers, samples>>

\* What the actions on a pair of universes leave alone.
beside == <<edges, loop_y, loop_x, apart>>

\* What the steps of one universe's tick leave alone.
aside == <<other, beside>>

\* What belongs to the graph_walker universes.
universes == <<size, nodes, iteration, hyper_params, agent_size, prng_inc, panicked,
               pc, phase_done, nodes_with_graffiti, nodes_with_agents_out, tick_start,
               other, edges, loop_y, loop_x>>

\* --------------------------------------------------------------- species
Red == "Red"
Blue == "Blue"
AgentSpecies == {Red, Blue}

\* ------------------------------------------------------------ Neighbours
NeighboursNew(top, right, bottom, left) ==
    [top |-> top, bottom |-> bottom, left |-> left, right |-> right, size |-> 4]

\* impl IntoIterator for Neighbours: top, right, bottom, left, then None
NeighboursIntoIter(n) == <<n.top, n.right, n.bottom, n.left>>

\* Some(v) is <<v>>, None is <<>>.
Some(v) == <<v>>
None == <<>>

\* impl IntoIterator for Neighbours: into_iter
NeighboursIntoIterator(self) == [neighbours |-> self, index |-> 0]

\* Mutant: next() reads the fields in the order of the struct (top, bottom,
\* left, right).
NeighboursIntoIteratorNextFieldOrder(self) ==
    CASE self.index = 0 -> [item |-> Some(self.neighbours.top),
                            iter |-> [self EXCEPT !.index = @ + 1]]
      [] self.index = 1 -> [item |-> Some(self.neighbours.bottom),
                            iter |-> [self EXCEPT !.index = @ + 1]]
      [] self.index = 2 -> [item |-> Some(self.neighbours.left),
                            iter |-> [self EXCEPT !.index = @ + 1]]
      [] self.index = 3 -> [item |-> Some(self.neighbours.right),
                            iter |-> [self EXCEPT !.index = @ + 1]]
      [] OTHER -> [item |-> None, iter |-> self]

\* impl Iterator for NeighboursIntoIterator: next, [item, iter].  The arm for
\* any other index returns None before the index is incremented.
NeighboursIntoIteratorNext(self) ==
    CASE self.index = 0 -> [item |-> Some(self.neighbours.top),
                            iter |-> [self EXCEPT !.index = @ + 1]]
      [] self.index = 1 -> [item |-> Some(self.neighbours.right),
                            iter |-> [self EXCEPT !.index = @ + 1]]
      [] self.index = 2 -> [item |-> Some(self.neighbours.bottom),
                            iter |-> [self EXCEPT !.index = @ + 1]]
      [] self.index = 3 -> [item |-> Some(self.neighbours.left),
                            iter |-> [self EXCEPT !.index = @ + 1]]
      [] OTHER -> [item |-> None, iter |-> self]

\* ---------------------------------------------------------------- Rand32
\* One step of the generator's state.
RngStep(s) == (s * 13 + prng_inc) % 64

\* The states of the generator.
RngStates == 0..63

\* Rand32::new(seed)
Rand32New(seed) == RngStep((RngStep(0) + seed) % 64)

\* Rand32::rand_float: <<k, next state>>, the float drawn being k/8 in [0, 1)
RandFloat(prng) == <<RngStep(prng) \div 8, RngStep(prng)>>

\* Rand32::rand_range(0..n), n > 0: <<value in 0..n-1, next state>>
RandRange(prng, n) == <<(RngStep(prng) * n) \div 64, RngStep(prng)>>

\* ------------------------------------------------------------ HyperParams
HyperParamsNew(gamma, lambda, beta) == [gamma |-> gamma, lambda |-> lambda, beta |-> beta]

HyperParamsDefault == [gamma |-> <<1, 2>>, lambda |-> <<1, 2>>, beta |-> <<1, 100>>]

\* The hyperparameters a caller hands to set_hyper_params in this model:
\* the defaults, a steeper beta, a beta so steep that exp underflows to 0,
\* and a lambda of 1.5, which retains more than the whole field.
HyperParamsChoices ==
    { HyperParamsDefault,
      HyperParamsNew(<<1, 2>>, <<1, 2>>, <<1, 1>>),
      HyperParamsNew(<<1, 2>>, <<1, 2>>, <<1000, 1>>),
      HyperParamsNew(<<1, 2>>, <<3, 2>>, <<1, 100>>) }

\* ------------------------------------------------------------- f32 model
\* x * h for a fixed-point x >= 0 and a hyperparameter h, rounded down
F32Mul(x, h) == (x * h[1]) \div h[2]

\* n as f32, in quarters
F32FromU32(n) == n * 4

\* E.powf(-x) for x >= 0 in quarters, in thousandths: e^(-1/4) is about 7/9.
\* The f32 result is 0.0 from about x = 104 on (underflow); in thousandths the
\* result reaches 0 earlier.
RECURSIVE ExpNeg(_)
ExpNeg(x) ==
    IF x = 0 THEN 1000
    ELSE IF x >= 416 THEN 0
    ELSE (ExpNeg(x - 1) * 7) \div 9

\* ------------------------------------------------------------------ Node
\* Mutant: a new node has the push strength of an empty field, exp(0) = 1.
NodeNewUnitPush(index, edge_map) ==
    [index |-> index,
     neighbours |-> edge_map[index],
     graffiti |-> [red |-> 0, blue |-> 0],
     push_strength |-> [red |-> 1000, blue |-> 1000],
     blue_agents |-> 0,
     red_agents |-> 0,
     agents_out |-> <<NeighboursNew(0, 0, 0, 0), NeighboursNew(0, 0, 0, 0)>>]

NodeNew(index, edge_map) ==
    [index |-> index,
     neighbours |-> edge_map[index],
     graffiti |-> [red |-> 0, blue |-> 0],
     push_strength |-> [red |-> 0, blue |-> 0],
     blue_agents |-> 0,
     red_agents |-> 0,
     agents_out |-> <<NeighboursNew(0, 0, 0, 0), NeighboursNew(0, 0, 0, 0)>>]

\* Node::get_prng: the seed handed to Rand32::new
GetPrngSeed(self) == (self.index + 1) * (self.blue_agents + self.red_agents + 1)

\* Node::get_prng
GetPrng(self) == Rand32New((self.index + 1) * (self.blue_agents + self.red_agents + 1))

\* Node::get_push_strength
GetPushStrength(self, species) ==
    IF species = Red THEN self.push_strength.red ELSE self.push_strength.blue

\* Node::add_agents
AddAgents(self, amount, species) ==
    IF species = Red
    THEN [self EXCEPT !.red_agents = @ + amount]
    ELSE [self EXCEPT !.blue_agents = @ + amount]

\* Mutant: the deposit of a species is taken from the count of the other
\* species, as get_agents_with_species returns it.
UpdateGraffitiAndPushStrengthOpposite(self, hp) ==
    LET g_red == F32Mul(self.graffiti.red, hp.lambda)
                    + F32Mul(F32FromU32(self.blue_agents), hp.gamma)
        g_blue == F32Mul(self.graffiti.blue, hp.lambda)
                    + F32Mul(F32FromU32(self.red_agents), hp.gamma)
    IN [self EXCEPT
            !.graffiti = [red |-> g_red, blue |-> g_blue],
            !.push_strength = [red |-> ExpNeg(F32Mul(g_red, hp.beta)),
                               blue |-> ExpNeg(F32Mul(g_blue, hp.beta))]]

\* Node::get_agents_with_species: the arm for Blue reads red_agents, the arm
\* for Red reads blue_agents
GetAgentsWithSpecies(self, species) ==
    IF species = Blue THEN self.red_agents ELSE self.blue_agents

\* Node::update_graffiti_and_push_strength
UpdateGraffitiAndPushStrength(self, hp) ==
    LET g_red == F32Mul(self.graffiti.red, hp.lambda)
                    + F32Mul(F32FromU32(self.red_agents), hp.gamma)
        g_blue == F32Mul(self.graffiti.blue, hp.lambda)
                    + F32Mul(F32FromU32(self.blue_agents), hp.gamma)
    IN [self EXCEPT
            !.graffiti = [red |-> g_red, blue |-> g_blue],
            !.push_strength = [red |-> ExpNeg(F32Mul(g_red, hp.beta)),
                               blue |-> ExpNeg(F32Mul(g_blue, hp.beta))]]

\* ------------------------------------- Neighbours::add_agent_to_random_cell
\* sum of the first i push strengths, added in the order of the loop
RECURSIVE CumSum(_, _)
CumSum(strengths, i) == IF i = 0 THEN 0 ELSE CumSum(strengths, i - 1) + strengths[i]

\* Mutant: the test is `sum > random_number`.
SumReachesStrictly(sum, k, total) == sum * 8 > k * total

\* `sum >= random_number`, with random_number = (k/8) * total
SumReaches(sum, k, total) == sum * 8 >= k * total

\* The positions (1-based) at which the loop's test succeeds.
SlotsReached(strengths, total, k) ==
    { i \in 1..Len(strengths) : SumReaches(CumSum(strengths, i), k, total) }

SetMin(S) == CHOOSE m \in S : \A o \in S : m <= o

\* Mutant: the arms follow the order of the struct's fields (top, bottom,
\* left, right), not the order of the weights.
IncrementSlotFieldOrder(self, i) ==
    CASE i = 0 -> [self EXCEPT !.top = @ + 1]
      [] i = 1 -> [self EXCEPT !.bottom = @ + 1]
      [] i = 2 -> [self EXCEPT !.left = @ + 1]
      [] i = 3 -> [self EXCEPT !.right = @ + 1]
      [] OTHER -> self

\* The counter the match arm for enumerate position i (0-based) increments;
\* any other position is the panic arm.
IncrementSlot(self, i) ==
    CASE i = 0 -> [self EXCEPT !.top = @ + 1]
      [] i = 1 -> [self EXCEPT !.right = @ + 1]
      [] i = 2 -> [self EXCEPT !.bottom = @ + 1]
      [] i = 3 -> [self EXCEPT !.left = @ + 1]
      [] OTHER -> self

\* Mutant: the match has no arm for position 3, which falls into the panic arm.
AddAgentToRandomCellThreeArms(self, strengths, total, prng) ==
    LET draw == RandFloat(prng)
        reached == SlotsReached(strengths, total, draw[1])
        i == SetMin(reached) - 1
    IN IF reached = {}
       THEN [out |-> self, prng |-> draw[2], panic |-> FALSE]
       ELSE [out |-> IncrementSlot(self, i), prng |-> draw[2], panic |-> i > 2]

\* One call: the counters afterwards, the generator afterwards, and whether
\* the call panicked.  When no position passes the test nothing is incremented.
AddAgentToRandomCell(self, strengths, total, prng) ==
    LET draw == RandFloat(prng)
        reached == SlotsReached(strengths, total, draw[1])
        i == SetMin(reached) - 1
    IN IF reached = {}
       THEN [out |-> self, prng |-> draw[2], panic |-> FALSE]
       ELSE [out |-> IncrementSlot(self, i), prng |-> draw[2], panic |-> i > 3]

\* `for _ in 0..n { out.add_agent_to_random_cell(strengths, total, &mut prng) }`
RECURSIVE DrawAgents(_, _, _, _, _)
DrawAgents(n, out, strengths, total, prng) ==
    IF n = 0 THEN [out |-> out, prng |-> prng, panic |-> FALSE]
    ELSE LET one == AddAgentToRandomCell(out, strengths, total, prng)
             rest == DrawAgents(n - 1, one.out, strengths, total, one.prng)
         IN IF one.panic THEN one ELSE rest

\* ------------------------------------------------- Node::move_agents_out
\* The push strengths of the four neighbours, read from the given nodes.
NeighbourPushStrengths(self, ns, species) ==
    LET idx == NeighboursIntoIter(self.neighbours)
    IN [k \in 1..4 |-> GetPushStrength(ns[idx[k]], species)]

\* Mutant: a species is steered by its own push strengths.
SteeringSpeciesSame(species) == species

\* The strengths that steer the agents of a species: those of the other one.
SteeringSpecies(species) == IF species = Red THEN Blue ELSE Red

\* Mutant: the draws are added to the buffer the node already has.
MoveAgentsOutAccumulating(self, ns) ==
    LET for_red == NeighbourPushStrengths(self, ns, SteeringSpecies(Red))
        for_blue == NeighbourPushStrengths(self, ns, SteeringSpecies(Blue))
        red == DrawAgents(self.red_agents, self.agents_out[1],
                          for_red, CumSum(for_red, 4), GetPrng(self))
        blue == DrawAgents(self.blue_agents, self.agents_out[2],
                           for_blue, CumSum(for_blue, 4), red.prng)
    IN [node |-> [self EXCEPT !.agents_out = <<red.out, blue.out>>],
        panic |-> red.panic \/ blue.panic]

\* Mutant: the agents leave the node's counters as soon as they are put in
\* the outflow buffer.
MoveAgentsOutLeaving(self, ns) ==
    LET for_red == NeighbourPushStrengths(self, ns, SteeringSpecies(Red))
        for_blue == NeighbourPushStrengths(self, ns, SteeringSpecies(Blue))
        red == DrawAgents(self.red_agents, NeighboursNew(0, 0, 0, 0),
                          for_red, CumSum(for_red, 4), GetPrng(self))
        blue == DrawAgents(self.blue_agents, NeighboursNew(0, 0, 0, 0),
                           for_blue, CumSum(for_blue, 4), red.prng)
    IN [node |-> [self EXCEPT !.agents_out = <<red.out, blue.out>>,
                              !.red_agents = 0, !.blue_agents = 0],
        panic |-> red.panic \/ blue.panic]

\* [node, panic]: the node with its outflow buffer rebuilt.  Red agents are
\* drawn first, then blue agents, from one generator.
MoveAgentsOut(self, ns) ==
    LET for_red == NeighbourPushStrengths(self, ns, SteeringSpecies(Red))
        for_blue == NeighbourPushStrengths(self, ns, SteeringSpecies(Blue))
        red == DrawAgents(self.red_agents, NeighboursNew(0, 0, 0, 0),
                          for_red, CumSum(for_red, 4), GetPrng(self))
        blue == DrawAgents(self.blue_agents, NeighboursNew(0, 0, 0, 0),
                           for_blue, CumSum(for_blue, 4), red.prng)
    IN [node |-> [self EXCEPT !.agents_out = <<red.out, blue.out>>],
        panic |-> red.panic \/ blue.panic]

\* Mutant: the two counters are not reset before the inflow is added.
MoveAgentsInKeeping(self, ns) ==
    LET n == self.neighbours
        t == ns[n.top].agents_out
        r == ns[n.right].agents_out
        b == ns[n.bottom].agents_out
        l == ns[n.left].agents_out
    IN [self EXCEPT
          !.red_agents = @ + t[1].bottom + r[1].left + b[1].top + l[1].right,
          !.blue_agents = @ + t[2].bottom + r[2].left + b[2].top + l[2].right]

\* Mutant: a neighbour slot that points back at the node itself is skipped.
MoveAgentsInSkipSelf(self, ns) ==
    LET n == self.neighbours
        From(idx, slot_red, slot_blue) ==
            IF idx = self.index THEN <<0, 0>> ELSE <<slot_red, slot_blue>>
        t == From(n.top, ns[n.top].agents_out[1].bottom, ns[n.top].agents_out[2].bottom)
        r == From(n.right, ns[n.right].agents_out[1].left, ns[n.right].agents_out[2].left)
        b == From(n.bottom, ns[n.bottom].agents_out[1].top, ns[n.bottom].agents_out[2].top)
        l == From(n.left, ns[n.left].agents_out[1].right, ns[n.left].agents_out[2].right)
    IN [self EXCEPT !.red_agents = t[1] + r[1] + b[1] + l[1],
                    !.blue_agents = t[2] + r[2] + b[2] + l[2]]

\* Mutant: each neighbour's buffer is read at the slot named like the
\* neighbour (top's top, right's right), not at the one that points back.
MoveAgentsInSameSide(self, ns) ==
    LET n == self.neighbours
        t == ns[n.top].agents_out
        r == ns[n.right].agents_out
        b == ns[n.bottom].agents_out
        l == ns[n.left].agents_out
    IN [self EXCEPT
          !.red_agents = t[1].top + r[1].right + b[1].bottom + l[1].left,
          !.blue_agents = t[2].top + r[2].right + b[2].bottom + l[2].left]

\* -------------------------------------------------- Node::move_agents_in
\* agents_out[0] is red and agents_out[1] is blue in the code (1 and 2 here).
MoveAgentsIn(self, ns) ==
    LET n == self.neighbours
        zero == [self EXCEPT !.red_agents = 0, !.blue_agents = 0]
        top_node_agents == ns[n.top].agents_out
        a1 == AddAgents(AddAgents(zero, top_node_agents[1].bottom, Red),
                        top_node_agents[2].bottom, Blue)
        right_node_agents == ns[n.right].agents_out
        a2 == AddAgents(AddAgents(a1, right_node_agents[1].left, Red),
                        right_node_agents[2].left, Blue)
        bottom_node_agents == ns[n.bottom].agents_out
        a3 == AddAgents(AddAgents(a2, bottom_node_agents[1].top, Red),
                        bottom_node_agents[2].top, Blue)
        left_node_agents == ns[n.left].agents_out
    IN AddAgents(AddAgents(a3, left_node_agents[1].right, Red),
                 left_node_agents[2].right, Blue)

\* ------------------------------------------------------- Universe2D::new
\* Mutant: the grid has a wall on its right: the right neighbour of a cell of
\* the last column is the cell itself.
EdgesAtWall(sz, y, x) ==
    LET left_index == y * sz + ((x + sz - 1) % sz)
        right_index == y * sz + (IF x + 1 < sz THEN x + 1 ELSE x)
        top_index == ((y + sz - 1) % sz) * sz + x
        bottom_index == ((y + 1) % sz) * sz + x
    IN NeighboursNew(top_index, right_index, bottom_index, left_index)

\* Mutant: the right neighbour is taken without the modulo.
EdgesAtNoWrap(sz, y, x) ==
    LET left_index == y * sz + ((x + sz - 1) % sz)
        right_index == y * sz + (x + 1)
        top_index == ((y + sz - 1) % sz) * sz + x
        bottom_index == ((y + 1) % sz) * sz + x
    IN NeighboursNew(top_index, right_index, bottom_index, left_index)

\* The edges of the cell at (x, y) of a grid of the given size.
EdgesAt(sz, y, x) ==
    LET left_index == y * sz + ((x + sz - 1) % sz)
        right_index == y * sz + ((x + 1) % sz)
        top_index == ((y + sz - 1) % sz) * sz + x
        bottom_index == ((y + 1) % sz) * sz + x
    IN NeighboursNew(top_index, right_index, bottom_index, left_index)

\* The edges map after both loops: index y * size + x -> its edges.
EdgesOf(sz) == [index \in 0..(sz * sz - 1) |-> EdgesAt(sz, index \div sz, index % sz)]

\* The species of the id-th initial agent.
SpeciesOfId(id) == IF id % 2 = 0 THEN Red ELSE Blue

\* `(from..to).for_each(|id| ...)`: the nodes after the agents from..to-1 are
\* placed, drawing each agent's cell from the generator.
RECURSIVE PlaceAgents(_, _, _, _, _)
PlaceAgents(ns, from, to, sz, prng) ==
    IF from >= to THEN ns
    ELSE LET draw == RandRange(prng, sz * sz)
             placed == [ns EXCEPT ![draw[1]] = AddAgents(@, 1, SpeciesOfId(from))]
         IN PlaceAgents(placed, from + 1, to, sz, draw[2])

\* Mutant: only agent_size agents are placed, not agent_size * 2.
NewNodesHalf(sz, agents) ==
    LET edge_map == EdgesOf(sz)
        blank == [index \in 0..(sz * sz - 1) |-> NodeNew(index, edge_map)]
    IN PlaceAgents(blank, 0, agents, sz, Rand32New(100))

\* The nodes Universe2D::new(size, agent_size) returns, for size >= 1 or
\* agent_size = 0.
NewNodes(sz, agents) ==
    LET edge_map == EdgesOf(sz)
        blank == [index \in 0..(sz * sz - 1) |-> NodeNew(index, edge_map)]
    IN PlaceAgents(blank, 0, agents * 2, sz, Rand32New(100))

\* Universe2D::new panics when an agent is to be placed on a grid of no cells.
NewPanics(sz, agents) == sz = 0 /\ agents > 0

Indices == DOMAIN nodes

\* ------------------------------------------------------ Universe2D::tick
\* What the closure of each par_iter_mut().for_each does to the node array
\* when it runs for node i.
\* Mutant: phase 0 also empties the node's outflow buffer.
UpdateGraffitiStepClearing(ns, i, hp) ==
    [ns EXCEPT ![i] = [UpdateGraffitiAndPushStrength(@, hp) EXCEPT
                          !.agents_out = <<NeighboursNew(0, 0, 0, 0),
                                           NeighboursNew(0, 0, 0, 0)>>]]

\* Mutant: phase 0 with the hyperparameters the universe was built with.
UpdateGraffitiStepDefault(ns, i, hp) ==
    [ns EXCEPT ![i] = UpdateGraffitiAndPushStrength(@, HyperParamsDefault)]

UpdateGraffitiStep(ns, i, hp) ==
    [ns EXCEPT ![i] = UpdateGraffitiAndPushStrength(@, hp)]

MoveAgentsOutStep(ns, i, snapshot) ==
    [ns EXCEPT ![i] = MoveAgentsOut(@, snapshot).node]

\* Mutant: phase 2 without the clone.  The node reads the live array and
\* clears its own outflow buffer once its inflow is summed.
MoveAgentsInStepDrain(ns, i, snapshot) ==
    [ns EXCEPT ![i] = [MoveAgentsIn(@, ns) EXCEPT
                          !.agents_out = <<NeighboursNew(0, 0, 0, 0),
                                           NeighboursNew(0, 0, 0, 0)>>]]

\* Mutant: phase 2 in place, by pushing.  The node clears its own counters
\* and adds its outflow to the counters of its neighbours in the live array.
MoveAgentsInStepPush(ns, i, snapshot) ==
    LET me == ns[i]
        Give(arr, j, red, blue) ==
            [arr EXCEPT ![j] = AddAgents(AddAgents(@, red, Red), blue, Blue)]
        cleared == [ns EXCEPT ![i] = [@ EXCEPT !.red_agents = 0, !.blue_agents = 0]]
        g1 == Give(cleared, me.neighbours.top, me.agents_out[1].top, me.agents_out[2].top)
        g2 == Give(g1, me.neighbours.right, me.agents_out[1].right, me.agents_out[2].right)
        g3 == Give(g2, me.neighbours.bottom, me.agents_out[1].bottom, me.agents_out[2].bottom)
    IN Give(g3, me.neighbours.left, me.agents_out[1].left, me.agents_out[2].left)

\* Mutant: the node takes its inflow out of the neighbours' live buffers,
\* zeroing each slot it has read.
MoveAgentsInStepTake(ns, i, snapshot) ==
    LET n == ns[i].neighbours
        moved == [ns EXCEPT ![i] = MoveAgentsIn(@, snapshot)]
        t == [moved EXCEPT ![n.top].agents_out[1].bottom = 0,
                           ![n.top].agents_out[2].bottom = 0]
        r == [t EXCEPT ![n.right].agents_out[1].left = 0,
                       ![n.right].agents_out[2].left = 0]
        b == [r EXCEPT ![n.bottom].agents_out[1].top = 0,
                       ![n.bottom].agents_out[2].top = 0]
    IN [b EXCEPT ![n.left].agents_out[1].right = 0,
                 ![n.left].agents_out[2].right = 0]

MoveAgentsInStep(ns, i, snapshot) ==
    [ns EXCEPT ![i] = MoveAgentsIn(@, snapshot)]

\* Mutant: for_each returns as soon as one closure of phase k has finished.
ForEachReturnedEarly(k) == \E i \in Indices : phase_done[i] = k

\* for_each returns once every node has run the closure of phase k.
ForEachReturned(k) == \A i \in Indices : phase_done[i] = k

\* A node runs the closure of phase k once, after for_each number k began.
MayRun(i, phase, k) == pc = phase /\ phase_done[i] = k - 1

AllZero == [i \in Indices |-> 0]

\* No mutex test is running and there is no walker2d Universe.
NoWalker ==
    /\ walker = <<>>
    /\ walker_call = <<>>
    /\ walker_panicked = FALSE

InitApart ==
    /\ arc_node = <<>>
    /\ closures = <<>>
    /\ NoWalker
    /\ neighbours_out = <<>>
    /\ iter = <<>>

InitUniverse ==
    /\ size \in 0..MaxSize
    /\ agent_size \in 0..MaxAgents
    /\ prng_inc \in {2 * k + 1 : k \in 0..(MaxInc - 1)}
    /\ panicked = NewPanics(size, agent_size)
    /\ nodes = IF panicked THEN <<>> ELSE NewNodes(size, agent_size)
    /\ iteration = 0
    /\ hyper_params = HyperParamsDefault
    /\ pc = "idle"
    /\ phase_done = [i \in DOMAIN nodes |-> 0]
    /\ nodes_with_graffiti = <<>>
    /\ nodes_with_agents_out = <<>>
    /\ tick_start = nodes
    /\ edges = EdgesOf(size)
    /\ loop_y = size
    /\ loop_x = 0
    /\ InitApart

Init ==
    /\ InitUniverse
    /\ other = <<>>

\* Universe2D::set_hyper_params
SetHyperParams(hp) ==
    /\ pc = "idle" /\ ~panicked
    /\ hyper_params' = hp
    /\ UNCHANGED <<aside, size, nodes, iteration, agent_size, prng_inc, panicked, pc,
                   phase_done, nodes_with_graffiti, nodes_with_agents_out, tick_start>>

\* tick() is called: the first for_each starts.
TickBegin ==
    /\ pc = "idle" /\ ~panicked
    /\ iteration < MaxTicks
    /\ pc' = "graffiti"
    /\ phase_done' = AllZero
    /\ tick_start' = nodes
    /\ UNCHANGED <<aside, size, nodes, iteration, hyper_params, agent_size, prng_inc,
                   panicked, nodes_with_graffiti, nodes_with_agents_out>>

\* 0) update graffiti in nodes: one node's closure
GraffitiStep(i) ==
    /\ ~panicked
    /\ MayRun(i, "graffiti", 1)
    /\ nodes' = UpdateGraffitiStep(nodes, i, hyper_params)
    /\ phase_done' = [phase_done EXCEPT ![i] = 1]
    /\ UNCHANGED <<aside, size, iteration, hyper_params, agent_size, prng_inc, panicked,
                   pc, nodes_with_graffiti, nodes_with_agents_out, tick_start>>

\* let nodes_with_graffiti = self.nodes.clone(), and the second for_each starts
CloneGraffiti ==
    /\ ~panicked
    /\ pc = "graffiti"
    /\ ForEachReturned(1)
    /\ nodes_with_graffiti' = nodes
    /\ pc' = "out"
    /\ UNCHANGED <<aside, size, nodes, iteration, hyper_params, agent_size, prng_inc,
                   panicked, phase_done, nodes_with_agents_out, tick_start>>

\* 1) move agents out: one node's closure
OutStep(i) ==
    /\ ~panicked
    /\ MayRun(i, "out", 2)
    /\ nodes' = MoveAgentsOutStep(nodes, i, nodes_with_graffiti)
    /\ panicked' = MoveAgentsOut(nodes[i], nodes_with_graffiti).panic
    /\ phase_done' = [phase_done EXCEPT ![i] = 2]
    /\ UNCHANGED <<aside, size, iteration, hyper_params, agent_size, prng_inc,
                   pc, nodes_with_graffiti, nodes_with_agents_out, tick_start>>

\* let nodes_with_agents_out = self.nodes.clone(), and the third for_each starts
CloneAgentsOut ==
    /\ ~panicked
    /\ pc = "out"
    /\ ForEachReturned(2)
    /\ nodes_with_agents_out' = nodes
    /\ pc' = "in"
    /\ UNCHANGED <<aside, size, nodes, iteration, hyper_params, agent_size, prng_inc,
                   panicked, phase_done, nodes_with_graffiti, tick_start>>

\* 2) move agents in: one node's closure
InStep(i) ==
    /\ ~panicked
    /\ MayRun(i, "in", 3)
    /\ nodes' = MoveAgentsInStep(nodes, i, nodes_with_agents_out)
    /\ phase_done' = [phase_done EXCEPT ![i] = 3]
    /\ UNCHANGED <<aside, size, iteration, hyper_params, agent_size, prng_inc, panicked,
                   pc, nodes_with_graffiti, nodes_with_agents_out, tick_start>>

\* Mutant: tick() returns without counting.
TickEndNoCount ==
    /\ ~panicked
    /\ pc = "in"
    /\ ForEachReturned(3)
    /\ pc' = "idle"
    /\ UNCHANGED <<aside, size, nodes, iteration, hyper_params, agent_size, prng_inc,
                   panicked, phase_done, nodes_with_graffiti, nodes_with_agents_out,
                   tick_start>>

\* self.iteration += 1, and tick() returns
TickEnd ==
    /\ ~panicked
    /\ pc = "in"
    /\ ForEachReturned(3)
    /\ iteration' = iteration + 1
    /\ pc' = "idle"
    /\ UNCHANGED <<aside, size, nodes, hyper_params, agent_size, prng_inc, panicked,
                   phase_done, nodes_with_graffiti, nodes_with_agents_out, tick_start>>

Next ==
    \/ \E hp \in HyperParamsChoices : SetHyperParams(hp)
    \/ TickBegin
    \/ \E i \in Indices : GraffitiStep(i)
    \/ CloneGraffiti
    \/ \E i \in Indices : OutStep(i)
    \/ CloneAgentsOut
    \/ \E i \in Indices : InStep(i)
    \/ TickEnd

Spec == Init /\ [][Next]_vars

\* ------------------------------------------------ tick on a single worker
\* Each for_each of tick when one worker runs the closures in index order.
RECURSIVE ForEachGraffiti(_, _, _)
ForEachGraffiti(ns, n, hp) ==
    IF n = 0 THEN ns ELSE UpdateGraffitiStep(ForEachGraffiti(ns, n - 1, hp), n - 1, hp)

RECURSIVE ForEachOut(_, _, _)
ForEachOut(ns, n, snapshot) ==
    IF n = 0 THEN ns ELSE MoveAgentsOutStep(ForEachOut(ns, n - 1, snapshot), n - 1, snapshot)

RECURSIVE ForEachIn(_, _, _)
ForEachIn(ns, n, snapshot) ==
    IF n = 0 THEN ns ELSE MoveAgentsInStep(ForEachIn(ns, n - 1, snapshot), n - 1, snapshot)

Count(ns) == Cardinality(DOMAIN ns)

\* The nodes after one whole tick() run that way.
TickInOrder(ns, hp) ==
    LET with_graffiti == ForEachGraffiti(ns, Count(ns), hp)
        with_agents_out == ForEachOut(with_graffiti, Count(ns), with_graffiti)
    IN ForEachIn(with_agents_out, Count(ns), with_agents_out)

\* ------------------------------------------- two universes, side by side
\* Both are built by Universe2D::new with the same arguments.  The first is
\* ticked node by node in any order; the second by one worker, a tick at a
\* time, and both are always handed the same hyperparameters.
InitPair ==
    /\ InitUniverse
    /\ ~panicked
    /\ other = [nodes |-> NewNodes(size, agent_size), iteration |-> 0,
                hyper_params |-> HyperParamsDefault]

InStepWithOther == other.iteration = iteration

PairSetHyperParams(hp) ==
    /\ pc = "idle"
    /\ InStepWithOther
    /\ hyper_params' = hp
    /\ other' = [other EXCEPT !.hyper_params = hp]
    /\ UNCHANGED <<size, nodes, iteration, agent_size, prng_inc, panicked, pc,
                   phase_done, nodes_with_graffiti, nodes_with_agents_out,
                   tick_start, beside>>

PairTickBegin == InStepWithOther /\ TickBegin

OtherTick ==
    /\ pc = "idle"
    /\ other.iteration < iteration
    /\ other' = [other EXCEPT !.nodes = TickInOrder(@, other.hyper_params),
                              !.iteration = @ + 1]
    /\ UNCHANGED <<size, nodes, iteration, hyper_params, agent_size, prng_inc, panicked,
                   pc, phase_done, nodes_with_graffiti, nodes_with_agents_out,
                   tick_start, beside>>

NextPair ==
    \/ \E hp \in HyperParamsChoices : PairSetHyperParams(hp)
    \/ PairTickBegin
    \/ \E i \in Indices : GraffitiStep(i)
    \/ CloneGraffiti
    \/ \E i \in Indices : OutStep(i)
    \/ CloneAgentsOut
    \/ \E i \in Indices : InStep(i)
    \/ TickEnd
    \/ OtherTick

SpecPair == InitPair /\ [][NextPair]_vars

\* ------------------------------------------------------ Universe::iterate
\* The trait declares iterate(&mut self, iterations: u32); the benchmark calls
\* it.  It is `iterations` calls of tick(), one after the other, here on a
\* universe record [nodes, iteration, hyper_params, ...] and on one worker.
RECURSIVE Iterate(_, _)
Iterate(u, iterations) ==
    IF iterations = 0 THEN u
    ELSE LET v == Iterate(u, iterations - 1)
         IN [v EXCEPT !.nodes = TickInOrder(@, v.hyper_params),
                      !.iteration = @ + 1]

\* Two universes built with the same arguments: on the second the caller
\* calls iterate(n), on the first it calls tick() n times.
InitIterate ==
    /\ InitUniverse
    /\ ~panicked
    /\ other = [nodes |-> NewNodes(size, agent_size), iteration |-> 0,
                hyper_params |-> HyperParamsDefault,
                called_at |-> 0, iterations |-> 0]

\* universe.iterate(n) on the second universe
OtherIterate(n) ==
    /\ pc = "idle"
    /\ InStepWithOther
    /\ iteration + n <= MaxTicks
    /\ other' = [Iterate(other, n) EXCEPT !.called_at = iteration, !.iterations = n]
    /\ UNCHANGED <<size, nodes, iteration, hyper_params, agent_size, prng_inc, panicked,
                   pc, phase_done, nodes_with_graffiti, nodes_with_agents_out,
                   tick_start, beside>>

\* `for _ in 0..n { universe.tick() }` on the first universe: the next tick
CatchUpTickBegin == other.iteration > iteration /\ TickBegin

NextIterate ==
    \/ \E hp \in HyperParamsChoices : PairSetHyperParams(hp)
    \/ \E n \in 0..MaxTicks : OtherIterate(n)
    \/ CatchUpTickBegin
    \/ \E i \in Indices : GraffitiStep(i)
    \/ CloneGraffiti
    \/ \E i \in Indices : OutStep(i)
    \/ CloneAgentsOut
    \/ \E i \in Indices : InStep(i)
    \/ TickEnd

SpecIterate == InitIterate /\ [][NextIterate]_vars

\* --------------------------------------- Universe2D::new, its edge loops
\* `for y in 0..size { for x in 0..size { ... edges.insert(index, new_edges) } }`
\* one insert at a time, and then the collect that builds the nodes.
InitEdges ==
    /\ size \in 0..MaxEdgesSize
    /\ edges = <<>>
    /\ loop_y = 0
    /\ loop_x = 0
    /\ pc = "edges"
    /\ nodes = <<>>
    /\ iteration = 0
    /\ hyper_params = HyperParamsDefault
    /\ agent_size = 0
    /\ prng_inc = 1
    /\ panicked = FALSE
    /\ phase_done = <<>>
    /\ nodes_with_graffiti = <<>>
    /\ nodes_with_agents_out = <<>>
    /\ tick_start = <<>>
    /\ other = <<>>
    /\ InitApart

InsertEdges ==
    /\ pc = "edges"
    /\ loop_y < size
    /\ LET index == loop_y * size + loop_x
       IN edges' = [k \in DOMAIN edges \cup {index} |->
                        IF k = index THEN EdgesAt(size, loop_y, loop_x) ELSE edges[k]]
    /\ loop_x' = IF loop_x + 1 < size THEN loop_x + 1 ELSE 0
    /\ loop_y' = IF loop_x + 1 < size THEN loop_y ELSE loop_y + 1
    /\ UNCHANGED <<size, nodes, iteration, hyper_params, agent_size, prng_inc, panicked,
                   pc, phase_done, nodes_with_graffiti, nodes_with_agents_out,
                   tick_start, other, apart>>

\* `(0..(size * size)).map(|index| Node::new(index, &edges)).collect()`
CollectNodes ==
    /\ pc = "edges"
    /\ loop_y = size
    /\ nodes' = [index \in 0..(size * size - 1) |-> NodeNew(index, edges)]
    /\ pc' = "idle"
    /\ UNCHANGED <<size, iteration, hyper_params, agent_size, prng_inc, panicked,
                   phase_done, nodes_with_graffiti, nodes_with_agents_out,
                   tick_start, other, edges, loop_y, loop_x, apart>>

NextEdges == InsertEdges \/ CollectNodes

SpecEdges == InitEdges /\ [][NextEdges]_vars

\* ----------------------------------------------- testing.rs: Arc<Mutex<..>>
\* No graph_walker universe has been built.
NoUniverse ==
    /\ size = 0
    /\ nodes = <<>>
    /\ iteration = 0
    /\ hyper_params = HyperParamsDefault
    /\ agent_size = 0
    /\ panicked = FALSE
    /\ pc = "none"
    /\ phase_done = <<>>
    /\ nodes_with_graffiti = <<>>
    /\ nodes_with_agents_out = <<>>
    /\ tick_start = <<>>
    /\ other = <<>>
    /\ edges = <<>>
    /\ loop_y = 0
    /\ loop_x = 0

\* The node both tests start from: no agents.
TestNode == [blue_agents |-> 0, red_agents |-> 0]

\* it_works_with_one_node_arc guards one node, it_works_with_ten_node_arc a
\* vector of `vec![node.clone(); 10]`.
TestNodeCounts == {1, 10}

\* `(0..n).into_par_iter().for_each(|_| ...)`: n closures, none started, and
\* the mutex free (holder 0).
InitMutex ==
    /\ NoUniverse
    /\ prng_inc = 1
    /\ \E count \in TestNodeCounts :
          arc_node = [holder |-> 0, nodes |-> [k \in 0..(count - 1) |-> TestNode]]
    /\ \E n \in 1..MaxCalls :
          closures = [c \in 1..n |-> [at |-> "start", loaded |-> 0]]
    /\ NoWalker
    /\ neighbours_out = <<>>
    /\ iter = <<>>

\* Mutant: lock() returns a guard whether or not another guard is alive.
LockIsFreeAlways(m) == TRUE

\* lock() returns once no other guard is alive.
LockIsFree(m) == m.holder = 0

\* let mut node = arc_node.lock().unwrap()
MutexLock(c) ==
    /\ closures[c].at = "start"
    /\ LockIsFree(arc_node)
    /\ arc_node' = [arc_node EXCEPT !.holder = c]
    /\ closures' = [closures EXCEPT ![c].at = "locked"]
    /\ UNCHANGED <<universes, walkers, samples>>

\* add_agents(1, Blue), `self.blue_agents += amount`: the read of the counter
AddAgentsLoad(c) ==
    /\ closures[c].at = "locked"
    /\ closures' = [closures EXCEPT ![c].at = "loaded",
                                     ![c].loaded = arc_node.nodes[0].blue_agents]
    /\ UNCHANGED <<universes, arc_node, walkers, samples>>

\* add_agents(1, Blue), `self.blue_agents += amount`: the write of the sum
AddAgentsStore(c) ==
    /\ closures[c].at = "loaded"
    /\ arc_node' = [arc_node EXCEPT !.nodes[0] =
                        AddAgents([@ EXCEPT !.blue_agents = closures[c].loaded], 1, Blue)]
    /\ closures' = [closures EXCEPT ![c].at = "stored"]
    /\ UNCHANGED <<universes, walkers, samples>>

\* The closure returns and its guard is dropped.
GuardDrop(c) ==
    /\ closures[c].at = "stored"
    /\ arc_node' = [arc_node EXCEPT !.holder = 0]
    /\ closures' = [closures EXCEPT ![c].at = "done"]
    /\ UNCHANGED <<universes, walkers, samples>>

NextMutex ==
    \E c \in DOMAIN closures :
        \/ MutexLock(c)
        \/ AddAgentsLoad(c)
        \/ AddAgentsStore(c)
        \/ GuardDrop(c)

SpecMutex == InitMutex /\ [][NextMutex]_vars

\* ================================================================ walker2d
\* An older engine of the repository.  A cell holds a HashSet of agents, an
\* agent being an id (the decimal string of a u32 the generator returned,
\* kept as the number here) and a species.  ChaCha8Rng is an external crate:
\* it is the same small generator as above, and a u32 it returns is the top
\* three bits of its state, so that two draws can return the same number
\* without the state repeating, as is the case for 32-bit draws.
Serial == "Serial"
Parallel == "Parallel"
ComputationType == {Serial, Parallel}

\* ChaCha8Rng::seed_from_u64
SeedFromU64(seed) == RngStep((RngStep(0) + seed) % 64)

\* RngCore::next_u32: <<value, next state>>
NextU32(prng) == <<RngStep(prng) \div 8, RngStep(prng)>>

\* Rng::gen_range(0..n), n > 0: <<value in 0..n-1, next state>>
GenRangeU32(prng, n) == <<(RngStep(prng) * n) \div 64, RngStep(prng)>>

\* Rng::gen_range(0.0..total), total > 0: <<k, next state>>, the float drawn
\* being (k/8) * total
GenRangeF32(prng) == <<RngStep(prng) \div 8, RngStep(prng)>>

\* Agent::new
AgentNew(id, species) == [id |-> id, species |-> species]

\* HashMap<AgentSpecies, f32>: get(..).unwrap_or(&0.0), and insert
MapGetOr0(map, species) == IF species \in DOMAIN map THEN map[species] ELSE 0

MapInsert(map, species, value) ==
    [k \in DOMAIN map \cup {species} |-> IF k = species THEN value ELSE map[k]]

\* HyperParams::new(0.5, 0.5, 1.0 / 100.0) of Universe::new
WalkerHyperParams == HyperParamsNew(<<1, 2>>, <<1, 2>>, <<1, 100>>)

\* Cell::new
CellNew(x, y, hp) ==
    [x |-> x, y |-> y, agents |-> {}, graffiti |-> <<>>, pull_strength |-> <<>>,
     hyper_params |-> hp]

\* Cell::reset
CellReset(self) ==
    [self EXCEPT !.agents = {}, !.pull_strength = <<>>, !.graffiti = <<>>]

\* Cell::add_agent: HashSet::insert, which keeps one of two equal agents
CellAddAgent(self, agent) == [self EXCEPT !.agents = @ \cup {agent}]

\* The body of the loop of Cell::increment_graffiti for one species.
IncrementGraffitiOf(self, species, grid_size) ==
    LET decreased == F32Mul(MapGetOr0(self.graffiti, species), self.hyper_params.lambda)
        num_agents_of_species ==
            Cardinality({agent \in self.agents : agent.species = species})
        entry == decreased
                    + F32Mul(F32FromU32(num_agents_of_species), self.hyper_params.gamma)
        xi == (entry * grid_size) \div 2
        pull_strength == ExpNeg(F32Mul(xi, self.hyper_params.beta))
    IN [self EXCEPT !.graffiti = MapInsert(@, species, entry),
                    !.pull_strength = MapInsert(@, species, pull_strength)]

\* Cell::increment_graffiti: AgentSpecies::iter() yields Red, then Blue
IncrementGraffiti(self, grid_size) ==
    IncrementGraffitiOf(IncrementGraffitiOf(self, Red, grid_size), Blue, grid_size)

\* Universe::new
WalkerNew(sz) ==
    [size |-> sz,
     cells |-> [i \in 0..(sz * sz - 1) |-> CellNew(i % sz, i \div sz, WalkerHyperParams)],
     prng |-> SeedFromU64(2),
     iteration |-> 0]

\* Universe::get_index
GetIndex(self, row, column) == (row % self.size) * self.size + (column % self.size)

\* Universe::get_cell
GetCell(self, row, col) == self.cells[GetIndex(self, row, col)]

\* Mutant: the two arguments of every get_cell are swapped.
NeighboursOfColumnFirst(self, row, col) ==
    <<GetCell(self, col, self.size + row - 1),
      GetCell(self, col, row + 1),
      GetCell(self, self.size + col - 1, row),
      GetCell(self, col + 1, row)>>

\* Universe::neighbours_of: top, bottom, left, right
NeighboursOf(self, row, col) ==
    <<GetCell(self, self.size + row - 1, col),
      GetCell(self, row + 1, col),
      GetCell(self, row, self.size + col - 1),
      GetCell(self, row, col + 1)>>

\* Universe::add_agent_to_random_cell, for size >= 1
WalkerAddAgentToRandomCell(self, species) ==
    LET id == NextU32(self.prng)
        agent == AgentNew(id[1], species)
        idx == GenRangeU32(id[2], self.size * self.size)
    IN [self EXCEPT !.prng = idx[2], !.cells[idx[1]] = CellAddAgent(@, agent)]

\* Universe::add_agents, for size >= 1
RECURSIVE WalkerAddAgentsTo(_, _)
WalkerAddAgentsTo(self, amount) ==
    IF amount = 0 THEN self
    ELSE LET before == WalkerAddAgentsTo(self, amount - 1)
         IN WalkerAddAgentToRandomCell(WalkerAddAgentToRandomCell(before, Red), Blue)

\* Universe::get_next_cells
GetNextCells(self) == [i \in DOMAIN self.cells |-> CellReset(self.cells[i])]

\* tick_serial, the body of its inner loop for one agent of one cell: the
\* strengths it sums, and the index of the cell the agent is added to.
\* gen_range panics on the empty range 0.0..0.0.
PullOfNeighbours(self, cell, agent) ==
    LET neighbours == NeighboursOf(self, cell.x, cell.y)
    IN [k \in 1..4 |-> MapGetOr0(neighbours[k].pull_strength, agent.species)]

EmptyRange(self, cell, agent) == CumSum(PullOfNeighbours(self, cell, agent), 4) <= 0

NextCellIdx(self, cell, agent) ==
    LET neighbours == NeighboursOf(self, cell.x, cell.y)
        pull == PullOfNeighbours(self, cell, agent)
        total_strength == CumSum(pull, 4)
        random_neigh == GenRangeF32(self.prng)[1]
        index == SetMin({k \in 1..4 : CumSum(pull, k) * 8 > random_neigh * total_strength})
    IN GetIndex(self, neighbours[index].y, neighbours[index].x)

\* Mutant: the draws are made on the universe's generator, which is one
\* step further when the tick returns.
TickSerialAdvancing(self) ==
    LET next_cells == GetNextCells(self)
        with_graffiti ==
            [self EXCEPT !.cells = [i \in DOMAIN @ |-> IncrementGraffiti(@[i], self.size)]]
        cells == with_graffiti.cells
        panics == \E i \in DOMAIN cells : \E agent \in cells[i].agents :
                      EmptyRange(with_graffiti, cells[i], agent)
        Arrivals(j) ==
            UNION { {agent \in cells[i].agents :
                        NextCellIdx(with_graffiti, cells[i], agent) = j} : i \in DOMAIN cells }
        moved == [j \in DOMAIN next_cells |-> [next_cells[j] EXCEPT !.agents = Arrivals(j)]]
    IN IF panics
       THEN [universe |-> with_graffiti, panic |-> TRUE]
       ELSE [universe |-> [with_graffiti EXCEPT !.iteration = @ + 1, !.cells = moved,
                                                !.prng = GenRangeF32(@)[2]],
             panic |-> FALSE]

\* tick_serial: [universe, panic].  Every add is an insert into the set of
\* the cell it goes to, so the order of the two loops does not show.
TickSerial(self) ==
    LET next_cells == GetNextCells(self)
        with_graffiti ==
            [self EXCEPT !.cells = [i \in DOMAIN @ |-> IncrementGraffiti(@[i], self.size)]]
        cells == with_graffiti.cells
        panics == \E i \in DOMAIN cells : \E agent \in cells[i].agents :
                      EmptyRange(with_graffiti, cells[i], agent)
        Arrivals(j) ==
            UNION { {agent \in cells[i].agents :
                        NextCellIdx(with_graffiti, cells[i], agent) = j} : i \in DOMAIN cells }
        moved == [j \in DOMAIN next_cells |-> [next_cells[j] EXCEPT !.agents = Arrivals(j)]]
    IN IF panics
       THEN [universe |-> with_graffiti, panic |-> TRUE]
       ELSE [universe |-> [with_graffiti EXCEPT !.iteration = @ + 1, !.cells = moved],
             panic |-> FALSE]

\* tick_parallel: [universe, panic].  The agents it collects are not used.
TickParallel(self) ==
    LET with_graffiti ==
            [self EXCEPT !.cells = [i \in DOMAIN @ |-> IncrementGraffiti(@[i], self.size)]]
        next_cells == GetNextCells(with_graffiti)
    IN [universe |-> [with_graffiti EXCEPT !.iteration = @ + 1, !.cells = next_cells],
        panic |-> FALSE]

\* Universe::tick
WalkerTickOf(self, computation) ==
    IF computation = Parallel THEN TickParallel(self) ELSE TickSerial(self)

\* The agents of all cells, counted cell by cell (number_of_agents_in_cells).
RECURSIVE NumberOfAgentsUpTo(_, _)
NumberOfAgentsUpTo(cells, n) ==
    IF n = 0 THEN 0
    ELSE NumberOfAgentsUpTo(cells, n - 1) + Cardinality(cells[n - 1].agents)

NumberOfAgentsInCells(cells) == NumberOfAgentsUpTo(cells, Count(cells))

InitWalker ==
    /\ NoUniverse
    /\ prng_inc \in {2 * k + 1 : k \in 0..(MaxInc - 1)}
    /\ arc_node = <<>>
    /\ closures = <<>>
    /\ \E sz \in 0..MaxWalkerSize : walker = WalkerNew(sz)
    /\ walker_call = [name |-> "new", arg |-> walker.size]
    /\ walker_panicked = FALSE
    /\ neighbours_out = <<>>
    /\ iter = <<>>

\* u.add_agents(amount); on a universe of no cells gen_range(0..0) panics
WalkerAddAgents(amount) ==
    /\ ~walker_panicked
    /\ NumberOfAgentsInCells(walker.cells) + 2 * amount <= 2 * MaxWalkerAgents
    /\ walker_call' = [name |-> "add_agents", arg |-> amount]
    /\ IF walker.size = 0 /\ amount > 0
       THEN walker_panicked' = TRUE /\ walker' = walker
       ELSE walker_panicked' = FALSE /\ walker' = WalkerAddAgentsTo(walker, amount)
    /\ UNCHANGED <<universes, arc_node, closures, samples>>

\* u.tick(computation)
WalkerTick(computation) ==
    /\ ~walker_panicked
    /\ walker.iteration < MaxTicks
    /\ walker_call' = [name |-> "tick", arg |-> computation]
    /\ walker' = WalkerTickOf(walker, computation).universe
    /\ walker_panicked' = WalkerTickOf(walker, computation).panic
    /\ UNCHANGED <<universes, arc_node, closures, samples>>

NextWalker ==
    \/ \E amount \in 0..MaxWalkerAgents : WalkerAddAgents(amount)
    \/ \E computation \in ComputationType : WalkerTick(computation)

SpecWalker == InitWalker /\ [][NextWalker]_vars

\* ------------------------------------------- neighbour_data.rs: the tests
\* The weights the tests hand over, each 0.0, 0.5 or 1.0.
PushStrengthChoices == {0, 500, 1000}

\* `let mut neighbours_out = Neighbours::new(0, 0, 0, 0)`, a vector of four
\* weights, their sum as the total, and a generator in any of its states.
InitSample ==
    /\ NoUniverse
    /\ prng_inc \in {2 * k + 1 : k \in 0..(MaxInc - 1)}
    /\ arc_node = <<>>
    /\ closures = <<>>
    /\ NoWalker
    /\ \E strengths \in [1..4 -> PushStrengthChoices], prng \in RngStates :
          neighbours_out = [counters |-> NeighboursNew(0, 0, 0, 0),
                            neighbour_push_stength |-> strengths,
                            total |-> CumSum(strengths, 4),
                            prng |-> prng,
                            calls |-> 0,
                            before |-> NeighboursNew(0, 0, 0, 0),
                            float |-> 0]
    /\ iter = <<>>

\* neighbours_out.add_agent_to_random_cell(&neighbour_push_stength, total, prng);
\* the counters before the call and the float it drew are kept beside.
SampleAddAgent ==
    /\ neighbours_out.calls < MaxDraws
    /\ LET call == AddAgentToRandomCell(neighbours_out.counters,
                                        neighbours_out.neighbour_push_stength,
                                        neighbours_out.total, neighbours_out.prng)
       IN neighbours_out' = [neighbours_out EXCEPT
                                !.counters = call.out,
                                !.prng = call.prng,
                                !.calls = @ + 1,
                                !.before = neighbours_out.counters,
                                !.float = RandFloat(neighbours_out.prng)[1]]
    /\ UNCHANGED <<universes, arc_node, closures, walkers, iter>>

NextSample == SampleAddAgent

SpecSample == InitSample /\ [][NextSample]_vars

\* `let mut iter = neighbours.into_iter()` on a Neighbours value that one
\* match arm of add_agent_to_random_cell has just incremented; the value
\* before the increment, the arm, and the items next() returned are kept
\* beside the iterator.
InitIter ==
    /\ NoUniverse
    /\ prng_inc = 1
    /\ arc_node = <<>>
    /\ closures = <<>>
    /\ NoWalker
    /\ neighbours_out = <<>>
    /\ \E top \in 0..MaxItem, right \in 0..MaxItem, bottom \in 0..MaxItem,
          left \in 0..MaxItem, i \in 0..3 :
          LET base == NeighboursNew(top, right, bottom, left)
          IN iter = [it |-> NeighboursIntoIterator(IncrementSlot(base, i)),
                     base |-> base,
                     arm |-> i,
                     items |-> <<>>]

\* iter.next()
IterNext ==
    /\ Len(iter.items) < MaxNext
    /\ iter' = [iter EXCEPT !.it = NeighboursIntoIteratorNext(iter.it).iter,
                            !.items = Append(@, NeighboursIntoIteratorNext(iter.it).item)]
    /\ UNCHANGED <<universes, arc_node, closures, walkers, neighbours_out>>

NextIter == IterNext

SpecIter == InitIter /\ [][NextIter]_vars

\* ================================================================ claims
AgentsOf(node, species) ==
    IF species = Red THEN node.red_agents ELSE node.blue_agents

RECURSIVE SumAgents(_, _, _)
SumAgents(ns, n, species) ==
    IF n = 0 THEN 0 ELSE SumAgents(ns, n - 1, species) + AgentsOf(ns[n - 1], species)

\* The number of agents of a species over all nodes.
TotalAgents(ns, species) == SumAgents(ns, Count(ns), species)

\* C1: on a grid of size >= 1, whenever no phase 2 is under way (so before
\* and after every tick), the red total and the blue total over all nodes
\* each equal their total right after construction.
C1_Conservation ==
    (size >= 1 /\ ~panicked /\ pc # "in") =>
        \A species \in AgentSpecies :
            TotalAgents(nodes, species)
                = TotalAgents(NewNodes(size, agent_size), species)

\* Two ticks are done on a 3 x 3 grid, and in the last one an agent left a
\* cell of the top row upwards, across the wrapped edge.
C1_Witness ==
    /\ pc = "idle" /\ iteration >= 2 /\ size = 3 /\ agent_size >= 1
    /\ \E i \in 0..2 : nodes[i].agents_out[1].top + nodes[i].agents_out[2].top > 0

\* C2: right after Universe2D::new(size, agent_size), size >= 1, the nodes
\* hold exactly agent_size red agents and exactly agent_size blue agents.
C2_NewPlacesAgentSizePerSpecies ==
    (size >= 1 /\ iteration = 0 /\ pc = "idle") =>
        /\ ~panicked
        /\ TotalAgents(nodes, Red) = agent_size
        /\ TotalAgents(nodes, Blue) = agent_size

\* A universe fresh from new, with two agents per species spread over
\* more than one cell.
C2_Witness ==
    /\ iteration = 0 /\ pc = "idle" /\ size >= 2 /\ agent_size = 2
    /\ Cardinality({i \in Indices : nodes[i].red_agents + nodes[i].blue_agents > 0}) >= 2

\* C3: two universes built with the same size and agent count and handed the
\* same hyperparameters hold the same nodes (occupancy, graffiti and all other
\* fields) after the same number of ticks, one being ticked node by node in
\* any order and the other by a single worker.
C3_Determinism ==
    (pc = "idle" /\ other.iteration = iteration) => other.nodes = nodes

\* Both universes have done two ticks, with hyperparameters other than the
\* defaults, and agents have moved.
C3_Witness ==
    /\ pc = "idle" /\ iteration = 2 /\ other.iteration = 2
    /\ hyper_params # HyperParamsDefault
    /\ size = 3 /\ agent_size = 2
    /\ nodes # NewNodes(size, agent_size)
    /\ \E i \in Indices : nodes[i].graffiti.red > 0 /\ nodes[i].red_agents = 0

\* C4: at the end of each of the three phases the nodes are what a single
\* worker running the closures in index order produces from the state the
\* phase started in, whatever order the closures really ran in.
C4_OrderIndependence ==
    /\ (pc = "graffiti" /\ \A i \in Indices : phase_done[i] = 1) =>
            nodes = ForEachGraffiti(tick_start, Count(nodes), hyper_params)
    /\ (pc = "out" /\ \A i \in Indices : phase_done[i] = 2) =>
            nodes = ForEachOut(nodes_with_graffiti, Count(nodes), nodes_with_graffiti)
    /\ (pc = "in" /\ \A i \in Indices : phase_done[i] = 3) =>
            nodes = ForEachIn(nodes_with_agents_out, Count(nodes), nodes_with_agents_out)

\* Phase 2 on a 3 x 3 grid in which a node has run before a node of lower
\* index and has received agents.
C4_Witness ==
    /\ pc = "in" /\ size = 3
    /\ \E i, j \in Indices :
          /\ i > j /\ phase_done[i] = 3 /\ phase_done[j] = 2
          /\ nodes[i].red_agents + nodes[i].blue_agents > 0
          /\ nodes[i].red_agents # tick_start[i].red_agents

\* C5: no node has finished phase 1 (move_agents_out) while a node has not
\* finished phase 0, and none has finished phase 2 while a node has not
\* finished phase 1; the clone phase 1 reads holds the phase 0 result of
\* every node, and the clone phase 2 reads holds the phase 1 result of
\* every node.
C5_Barrier ==
    /\ \A i, j \in Indices :
          /\ phase_done[i] >= 2 => phase_done[j] >= 1
          /\ phase_done[i] >= 3 => phase_done[j] >= 2
    /\ pc = "out" =>
          \A j \in Indices :
              nodes_with_graffiti[j]
                  = UpdateGraffitiAndPushStrength(tick_start[j], hyper_params)
    /\ pc = "in" =>
          \A j \in Indices :
              nodes_with_agents_out[j]
                  = MoveAgentsOut(nodes_with_graffiti[j], nodes_with_graffiti).node

\* A node of a 3 x 3 grid has moved agents out while others have not yet,
\* in a second tick.
C5_Witness ==
    /\ pc = "out" /\ size = 3 /\ iteration = 1
    /\ \E i, j \in Indices :
          /\ phase_done[i] = 2 /\ phase_done[j] = 1
          /\ nodes[i].agents_out # tick_start[i].agents_out

\* One universe's array with every node but i as Node::new made it.
OthersBlank(ns, i) == [j \in DOMAIN ns |-> IF j = i THEN ns[j] ELSE NodeNew(j, edges)]

\* What a closure writes into node i does not depend on the other nodes of
\* the live array: they reach it through the clone only.
C6_ReadsOnlyClone ==
    \A i \in Indices :
        /\ MayRun(i, "graffiti", 1) =>
              UpdateGraffitiStep(OthersBlank(nodes, i), i, hyper_params)[i]
                  = UpdateGraffitiStep(nodes, i, hyper_params)[i]
        /\ MayRun(i, "out", 2) =>
              MoveAgentsOutStep(OthersBlank(nodes, i), i, nodes_with_graffiti)[i]
                  = MoveAgentsOutStep(nodes, i, nodes_with_graffiti)[i]
        /\ MayRun(i, "in", 3) =>
              MoveAgentsInStep(OthersBlank(nodes, i), i, nodes_with_agents_out)[i]
                  = MoveAgentsInStep(nodes, i, nodes_with_agents_out)[i]

\* C6: a step inside a phase changes no node other than the one whose closure
\* ran, and changes neither clone; and what it writes depends on the other
\* nodes only through the clone taken when the previous phase ended.
C6_StepsWriteOwnNodeOnly ==
    /\ []C6_ReadsOnlyClone
    /\ [][pc' = pc =>
            /\ DOMAIN nodes' = DOMAIN nodes
            /\ \A j \in Indices : phase_done'[j] = phase_done[j] => nodes'[j] = nodes[j]
            /\ nodes_with_graffiti' = nodes_with_graffiti
            /\ nodes_with_agents_out' = nodes_with_agents_out]_vars

\* Phase 2 is half done on a 3 x 3 grid: a node has received agents while a
\* neighbour of it still holds its old counters and a non-empty outflow.
C6_Witness ==
    /\ pc = "in" /\ size = 3
    /\ \E i, j \in Indices :
          /\ phase_done[i] = 3 /\ phase_done[j] = 2
          /\ j = nodes[i].neighbours.top
          /\ nodes[i].red_agents + nodes[i].blue_agents > 0
          /\ nodes[j].agents_out[1].bottom + nodes[j].agents_out[2].bottom > 0

\* C7: while new fills the edges map and when it has built the nodes, the
\* cell of index y * S + x has top ((y+S-1) mod S)*S + x, right
\* y*S + ((x+1) mod S), bottom ((y+1) mod S)*S + x and left
\* y*S + ((x+S-1) mod S), four slots, all of them indices of the grid.
C7_Topology ==
    LET S == size
        Right(index) ==
            LET y == index \div S
                x == index % S
            IN /\ edges[index].top = ((y + S - 1) % S) * S + x
               /\ edges[index].right = y * S + ((x + 1) % S)
               /\ edges[index].bottom = ((y + 1) % S) * S + x
               /\ edges[index].left = y * S + ((x + S - 1) % S)
               /\ edges[index].size = 4
               /\ {edges[index].top, edges[index].right, edges[index].bottom,
                   edges[index].left} \subseteq 0..(S * S - 1)
    IN /\ \A index \in DOMAIN edges : Right(index)
       /\ pc = "idle" =>
             /\ DOMAIN nodes = 0..(S * S - 1)
             /\ DOMAIN edges = 0..(S * S - 1)
             /\ \A index \in DOMAIN nodes :
                   /\ nodes[index].neighbours = edges[index]
                   /\ nodes[index].index = index

\* The nodes of a 4 x 4 grid are built; the top neighbour of cell (0, 0) is
\* the cell (0, 3) of the last row, index 12, and the right neighbour of the
\* last cell of the first row is the first one.
C7_Witness ==
    /\ pc = "idle" /\ size = 4
    /\ nodes[0].neighbours.top = 12
    /\ nodes[3].neighbours.right = 0
    /\ nodes[15].neighbours.bottom = 3

\* A tick in progress has a step it can take: a closure that may run, or a
\* for_each that has returned.
TickCanProgress ==
    /\ ~panicked
    /\ \/ \E i \in Indices, k \in 1..3 :
             MayRun(i, <<"graffiti", "out", "in">>[k], k)
       \/ \E k \in 1..3 : pc = <<"graffiti", "out", "in">>[k] /\ ForEachReturned(k)

\* C8: with size 1, new succeeds, the four neighbours of cell 0 are cell 0,
\* a tick in progress never panics and can always take its next step, and
\* between ticks cell 0 holds all agent_size agents of either species.
C8_SingleCell ==
    size = 1 =>
        /\ ~panicked
        /\ DOMAIN nodes = {0}
        /\ NeighboursIntoIter(nodes[0].neighbours) = <<0, 0, 0, 0>>
        /\ pc # "idle" => TickCanProgress
        /\ pc = "idle" =>
              /\ nodes[0].red_agents = agent_size
              /\ nodes[0].blue_agents = agent_size

\* Two ticks done on the single cell, which sent agents out through more
\* than one slot in the last one.
C8_Witness ==
    /\ size = 1 /\ pc = "idle" /\ iteration = 2 /\ agent_size = 2
    /\ Cardinality({k \in 1..4 :
            NeighboursIntoIter(nodes[0].agents_out[1])[k]
                + NeighboursIntoIter(nodes[0].agents_out[2])[k] > 0}) >= 2

\* C9: in phase 1, for a node that holds agents of a species whose four
\* steering push strengths are all zero, each of the four slots is the one
\* add_agent_to_random_cell increments for some state of the generator.
C9_UniformFallback ==
    \A i \in Indices, species \in AgentSpecies :
        LET strengths == NeighbourPushStrengths(nodes[i], nodes_with_graffiti,
                                                SteeringSpecies(species))
            none == NeighboursNew(0, 0, 0, 0)
        IN (pc = "out" /\ AgentsOf(nodes[i], species) > 0 /\ CumSum(strengths, 4) = 0) =>
              \A slot \in 0..3 :
                  \E prng \in 0..63 :
                      AddAgentToRandomCell(none, strengths, 0, prng).out
                          = IncrementSlot(none, slot)

\* C10: when phase 1 starts, the red outflow of every node is the same
\* whatever red push strength any one node of the clone has, and its blue
\* outflow the same whatever blue push strength any one node has.
C10_CrossSpeciesOnly ==
    (pc = "out" /\ \A i \in Indices : phase_done[i] = 1) =>
        \A i, j \in Indices, v \in {0, 500, 1000} :
            LET clone == nodes_with_graffiti
                red_changed == [clone EXCEPT ![j].push_strength.red = v]
                blue_changed == [clone EXCEPT ![j].push_strength.blue = v]
            IN /\ MoveAgentsOut(nodes[i], red_changed).node.agents_out[1]
                    = MoveAgentsOut(nodes[i], clone).node.agents_out[1]
               /\ MoveAgentsOut(nodes[i], blue_changed).node.agents_out[2]
                    = MoveAgentsOut(nodes[i], clone).node.agents_out[2]

\* Phase 1 starts for a node holding both species whose neighbours differ in
\* their blue push strengths and in their red ones.
C10_Witness ==
    /\ pc = "out" /\ \A i \in Indices : phase_done[i] = 1
    /\ \E i \in Indices :
          LET red_ps == NeighbourPushStrengths(nodes[i], nodes_with_graffiti, Red)
              blue_ps == NeighbourPushStrengths(nodes[i], nodes_with_graffiti, Blue)
          IN /\ nodes[i].red_agents > 0 /\ nodes[i].blue_agents > 0
             /\ Cardinality({red_ps[k] : k \in 1..4}) >= 2
             /\ Cardinality({blue_ps[k] : k \in 1..4}) >= 2
             /\ red_ps # blue_ps

\* C11: when phase 1 starts, the generator a node is about to use is the same
\* whatever the node's red and blue counts are, and differs from the one the
\* same node will use in the next tick.
C11_KeyedByIndexAndTick ==
    (pc = "out" /\ \A i \in Indices : phase_done[i] = 1) =>
        \A i \in Indices :
            /\ \A red, blue \in 0..(2 * MaxAgents) :
                  GetPrng([nodes[i] EXCEPT !.red_agents = red, !.blue_agents = blue])
                      = GetPrng(nodes[i])
            /\ GetPrng(TickInOrder(tick_start, hyper_params)[i]) # GetPrng(nodes[i])

\* C12: Universe2D::new with size 0 panics, whatever agent_size is, and no
\* node is built.
C12_SizeZeroFails ==
    size = 0 => (panicked /\ nodes = <<>>)

\* gamma >= 0, lambda in [0, 1], beta >= 0
HyperParamsValid(hp) ==
    /\ hp.gamma[1] >= 0
    /\ hp.lambda[1] >= 0 /\ hp.lambda[1] <= hp.lambda[2]
    /\ hp.beta[1] >= 0

\* C13: the universe never holds invalid hyperparameters: a set_hyper_params
\* with invalid ones is rejected and leaves the ones in place unchanged.
C13_InvalidRejected ==
    HyperParamsValid(hyper_params)

\* What phase 0 has written so far is computed with the hyperparameters the
\* universe holds.
C15_PhaseAUsesCurrent ==
    pc = "graffiti" =>
        \A i \in Indices :
            phase_done[i] = 1 =>
                nodes[i] = UpdateGraffitiAndPushStrength(tick_start[i], hyper_params)

\* C15: a step that changes the hyperparameters is taken between ticks, puts
\* one of the offered triples in place as a whole, and changes neither a node
\* nor the iteration counter; during a tick the hyperparameters stay the same;
\* and phase 0 of the next tick computes every node with the new values.
C15_SetHyperParamsFrame ==
    /\ []C15_PhaseAUsesCurrent
    /\ [][hyper_params' # hyper_params =>
            /\ pc = "idle" /\ pc' = "idle"
            /\ hyper_params' \in HyperParamsChoices
            /\ nodes' = nodes
            /\ iteration' = iteration
            /\ size' = size]_vars
    /\ [][pc # "idle" => hyper_params' = hyper_params]_vars

\* In a second tick, after the hyperparameters were replaced, phase 0 has
\* given a node that holds red agents a push strength the defaults would not.
C15_Witness ==
    /\ pc = "graffiti" /\ iteration = 1 /\ size = 3
    /\ hyper_params # HyperParamsDefault
    /\ \E i \in Indices :
          /\ phase_done[i] = 1 /\ nodes[i].red_agents > 0
          /\ nodes[i] # UpdateGraffitiAndPushStrength(tick_start[i], HyperParamsDefault)

\* C16: the counter starts at 0; it changes only when tick() returns, which
\* is after phase 2 has finished for every node, and then by exactly one; and
\* every return of tick() changes it.  So it equals the number of ticks done.
C16_IterationCountsTicks ==
    /\ pc = "idle" => iteration = 0
    /\ [][iteration' # iteration =>
            /\ pc = "in" /\ ForEachReturned(3) /\ pc' = "idle"
            /\ iteration' = iteration + 1]_vars
    /\ [][(pc = "in" /\ pc' = "idle") => iteration' = iteration + 1]_vars
    /\ [][(pc # "idle" /\ pc' = "idle") => pc = "in"]_vars

\* Two ticks are done on a 3 x 3 grid that holds agents.
C16_Witness ==
    /\ pc = "idle" /\ iteration = 2 /\ size = 3 /\ agent_size >= 1

\* How far a tick has got: its phase, then the nodes that finished it.
TickMeasure ==
    LET phase == CASE pc = "graffiti" -> 1 [] pc = "out" -> 2 [] pc = "in" -> 3
                   [] OTHER -> 4
    IN phase * (Count(nodes) + 1)
          + Cardinality({i \in Indices : phase_done[i] >= phase})

\* C17: on a grid of size >= 1 no state is one in which a panic has happened;
\* a tick in progress can always take a next step, and every step of it gets
\* it nearer to its end (so it ends, each phase having run for every node);
\* between ticks the universe is ready for the next one.
C17_TickTerminates ==
    /\ [](size >= 1 => (~panicked /\ (pc # "idle" => TickCanProgress)))
    /\ [][(size >= 1 /\ pc # "idle") => TickMeasure' > TickMeasure]_vars
    /\ [][(size >= 1 /\ pc' = "idle" /\ pc # "idle") => ForEachReturned(3)]_vars

\* Two ticks are done on a grid of several cells, the last one with a beta
\* that makes every push strength of some occupied cell's neighbourhood zero.
C17_Witness ==
    /\ pc = "idle" /\ iteration >= 2 /\ size >= 2 /\ agent_size >= 1
    /\ hyper_params.beta = <<1000, 1>>
    /\ \E i \in Indices :
          /\ tick_start[i].red_agents > 0
          /\ \A k \in 1..4 : NeighbourPushStrengths(nodes[i], nodes, Blue)[k] = 0

Added == {c \in DOMAIN closures : closures[c].at \in {"stored", "done"}}

\* C19: the blue count over the guarded nodes is the number of add_agents
\* calls that have written, at every moment and in every interleaving; when
\* all N closures are done it is N.  No red agent appears.
C19_NoLostIncrement ==
    /\ TotalAgents(arc_node.nodes, Blue) = Cardinality(Added)
    /\ TotalAgents(arc_node.nodes, Red) = 0
    /\ (\A c \in DOMAIN closures : closures[c].at = "done") =>
            TotalAgents(arc_node.nodes, Blue) = Cardinality(DOMAIN closures)

\* Three or more closures on the vector of ten nodes are all done.
C19_Witness ==
    /\ Count(arc_node.nodes) = 10
    /\ Cardinality(DOMAIN closures) >= 3
    /\ \A c \in DOMAIN closures : closures[c].at = "done"
    /\ arc_node.nodes[0].blue_agents = Cardinality(DOMAIN closures)

\* C20: on a walker2d universe of size >= 1, add_agents(a) raises the number
\* of agents over all cells by 2 * a (so to 2 * a on a fresh universe), and a
\* tick(Serial) returns and leaves that number as it was.
C20_WalkerConservation ==
    [][/\ (walker_call'.name = "add_agents" /\ walker.size >= 1) =>
            /\ ~walker_panicked'
            /\ NumberOfAgentsInCells(walker'.cells)
                  = NumberOfAgentsInCells(walker.cells) + 2 * walker_call'.arg
       /\ (walker_call'.name = "tick" /\ walker_call'.arg = Serial /\ walker.size >= 1) =>
            /\ ~walker_panicked'
            /\ NumberOfAgentsInCells(walker'.cells)
                  = NumberOfAgentsInCells(walker.cells)]_vars

\* C21: from any state of a walker2d universe of size >= 1, tick(Parallel)
\* and tick(Serial) leave the same set of agents in every cell.
C21_ParallelIsSerial ==
    (walker.size >= 1 /\ ~walker_panicked /\ ~TickSerial(walker).panic) =>
        \A i \in DOMAIN walker.cells :
            WalkerTickOf(walker, Parallel).universe.cells[i].agents
                = WalkerTickOf(walker, Serial).universe.cells[i].agents

\* The sum of the four counters of an outflow buffer.
SlotsSum(out) == out.top + out.right + out.bottom + out.left

\* C22: a node that has run phase 1 has, for either species, an outflow
\* buffer whose four counters add up to the node's count of that species; so
\* has every node of the clone phase 2 reads.
C22_OutflowSumsToOccupancy ==
    /\ pc = "out" =>
          \A i \in Indices :
              phase_done[i] = 2 =>
                  /\ SlotsSum(nodes[i].agents_out[1]) = nodes[i].red_agents
                  /\ SlotsSum(nodes[i].agents_out[2]) = nodes[i].blue_agents
    /\ pc = "in" =>
          \A i \in Indices :
              /\ SlotsSum(nodes_with_agents_out[i].agents_out[1])
                    = nodes_with_agents_out[i].red_agents
              /\ SlotsSum(nodes_with_agents_out[i].agents_out[2])
                    = nodes_with_agents_out[i].blue_agents

\* Phase 1 has spread the two red agents of a node over two slots.
C22_Witness ==
    /\ pc = "in"
    /\ \E i \in Indices :
          /\ nodes_with_agents_out[i].red_agents = 2
          /\ Cardinality({k \in 1..4 :
                  NeighboursIntoIter(nodes_with_agents_out[i].agents_out[1])[k] > 0}) = 2

\* The neighbour of node m in slot k (1 top, 2 right, 3 bottom, 4 left).
NeighbourInSlot(ns, m, k) == NeighboursIntoIter(ns[m].neighbours)[k]

\* The clone with one more agent of a species in counter k of node m.
OneMoreOut(snapshot, m, k, species) ==
    LET s == IF species = Red THEN 1 ELSE 2
    IN CASE k = 1 -> [snapshot EXCEPT ![m].agents_out[s].top = @ + 1]
         [] k = 2 -> [snapshot EXCEPT ![m].agents_out[s].right = @ + 1]
         [] k = 3 -> [snapshot EXCEPT ![m].agents_out[s].bottom = @ + 1]
         [] k = 4 -> [snapshot EXCEPT ![m].agents_out[s].left = @ + 1]

\* C23: when phase 2 starts, one more agent in any one counter (node m, slot
\* k, species s) of the clone gives exactly one more agent of species s to
\* the node that is m's neighbour in slot k, and changes nothing else of any
\* node: the counter is read once, by that node, also when several slots of
\* m point at the same node.
C23_EachCounterReadOnce ==
    (pc = "in" /\ \A i \in Indices : phase_done[i] = 2) =>
        \A m \in Indices, k \in 1..4, species \in AgentSpecies :
            LET more == OneMoreOut(nodes_with_agents_out, m, k, species)
                reader == NeighbourInSlot(nodes, m, k)
            IN \A n \in Indices :
                  MoveAgentsIn(nodes[n], more)
                      = IF n = reader
                        THEN AddAgents(MoveAgentsIn(nodes[n], nodes_with_agents_out),
                                       1, species)
                        ELSE MoveAgentsIn(nodes[n], nodes_with_agents_out)

\* Phase 2 starts on a 2 x 2 grid, where top and bottom of a node are one
\* node, with agents waiting in both of these slots of some node.
C23_Witness ==
    /\ pc = "in" /\ size = 2 /\ \A i \in Indices : phase_done[i] = 2
    /\ \E m \in Indices :
          /\ nodes[m].neighbours.top = nodes[m].neighbours.bottom
          /\ nodes[m].agents_out[1].top + nodes[m].agents_out[2].top > 0
          /\ nodes[m].agents_out[1].bottom + nodes[m].agents_out[2].bottom > 0

\* Two nodes agree in everything but their outflow buffers.
SameButAgentsOut(a, b) ==
    /\ a.index = b.index /\ a.neighbours = b.neighbours
    /\ a.red_agents = b.red_agents /\ a.blue_agents = b.blue_agents
    /\ a.graffiti = b.graffiti /\ a.push_strength = b.push_strength

\* C26: a node that has run phase 1 has the counts, graffiti and push
\* strengths it had when phase 1 began, and so has every node of the clone
\* taken after phase 1: phase 1 changes the outflow buffer only.
C26_PhaseBChangesOutflowOnly ==
    /\ pc = "out" =>
          \A i \in Indices :
              phase_done[i] = 2 => SameButAgentsOut(nodes[i], nodes_with_graffiti[i])
    /\ pc = "in" =>
          \A i \in Indices :
              SameButAgentsOut(nodes_with_agents_out[i], nodes_with_graffiti[i])

\* A node with agents of both species and graffiti has run phase 1 and has
\* a new outflow buffer.
C26_Witness ==
    /\ pc = "out"
    /\ \E i \in Indices :
          /\ phase_done[i] = 2
          /\ nodes[i].red_agents > 0 /\ nodes[i].blue_agents > 0
          /\ nodes[i].graffiti.red > 0
          /\ nodes[i].agents_out # nodes_with_graffiti[i].agents_out

\* top.out.bottom + right.out.left + bottom.out.top + left.out.right of node
\* i for buffer s (1 red, 2 blue), read from the given clone.
InflowOf(snapshot, i, s) ==
    LET n == snapshot[i].neighbours
    IN snapshot[n.top].agents_out[s].bottom + snapshot[n.right].agents_out[s].left
         + snapshot[n.bottom].agents_out[s].top + snapshot[n.left].agents_out[s].right

\* C27: a node that has run phase 2 holds, of each species, exactly the sum
\* of the four slots that point at it in the clone taken after phase 1,
\* whatever it held before; so does every node when tick() has returned.
C27_InflowReplacesOccupancy ==
    (~panicked /\ (pc = "in" \/ (pc = "idle" /\ iteration >= 1))) =>
        \A i \in Indices :
            (pc = "idle" \/ phase_done[i] = 3) =>
                /\ nodes[i].red_agents = InflowOf(nodes_with_agents_out, i, 1)
                /\ nodes[i].blue_agents = InflowOf(nodes_with_agents_out, i, 2)

\* A node that held red agents has run phase 2 and holds none, and a node
\* that held none holds some.
C27_Witness ==
    /\ pc = "in"
    /\ \E i \in Indices :
          /\ phase_done[i] = 3
          /\ nodes_with_agents_out[i].red_agents > 0
          /\ nodes[i].red_agents = 0
    /\ \E i \in Indices :
          /\ phase_done[i] = 3
          /\ nodes_with_agents_out[i].red_agents = 0
          /\ nodes[i].red_agents > 0

\* C28: a node that has run phase 0 has, for each species, a graffiti of
\* lambda times the graffiti it had when the tick began plus gamma times its
\* own count of that species, and a push strength of exp(-beta * graffiti).
C28_PhaseAFormula ==
    pc = "graffiti" =>
        \A i \in Indices :
            phase_done[i] = 1 =>
                /\ nodes[i].graffiti.red
                      = F32Mul(tick_start[i].graffiti.red, hyper_params.lambda)
                          + F32Mul(F32FromU32(tick_start[i].red_agents),
                                   hyper_params.gamma)
                /\ nodes[i].graffiti.blue
                      = F32Mul(tick_start[i].graffiti.blue, hyper_params.lambda)
                          + F32Mul(F32FromU32(tick_start[i].blue_agents),
                                   hyper_params.gamma)
                /\ nodes[i].push_strength.red
                      = ExpNeg(F32Mul(nodes[i].graffiti.red, hyper_params.beta))
                /\ nodes[i].push_strength.blue
                      = ExpNeg(F32Mul(nodes[i].graffiti.blue, hyper_params.beta))

\* In the second tick a node with red graffiti and different counts of the
\* two species has run phase 0.
C28_Witness ==
    /\ pc = "graffiti" /\ iteration = 1
    /\ \E i \in Indices :
          /\ phase_done[i] = 1
          /\ tick_start[i].graffiti.red > 0
          /\ tick_start[i].red_agents # tick_start[i].blue_agents
          /\ nodes[i].push_strength.red < 1000

\* C29: a node that has run phase 0 has the counts and the outflow buffer it
\* had when the tick began, and so has every node of the clone taken after
\* phase 0: phase 0 changes graffiti and push strength only.
C29_PhaseAChangesFieldOnly ==
    /\ pc = "graffiti" =>
          \A i \in Indices :
              phase_done[i] = 1 =>
                  /\ nodes[i].red_agents = tick_start[i].red_agents
                  /\ nodes[i].blue_agents = tick_start[i].blue_agents
                  /\ nodes[i].agents_out = tick_start[i].agents_out
    /\ pc = "out" =>
          \A i \in Indices :
              /\ nodes_with_graffiti[i].red_agents = tick_start[i].red_agents
              /\ nodes_with_graffiti[i].blue_agents = tick_start[i].blue_agents
              /\ nodes_with_graffiti[i].agents_out = tick_start[i].agents_out

\* In the second tick a node with agents and with a non-empty outflow buffer
\* from the first tick has run phase 0, which changed its graffiti.
C29_Witness ==
    /\ pc = "graffiti" /\ iteration = 1
    /\ \E i \in Indices :
          /\ phase_done[i] = 1
          /\ nodes[i].red_agents > 0
          /\ SlotsSum(nodes[i].agents_out[1]) > 0
          /\ nodes[i].graffiti # tick_start[i].graffiti

\* Every node has graffiti 0, push strength 0 and an empty outflow buffer.
AllNodesBlank ==
    \A i \in Indices :
        /\ nodes[i].graffiti = [red |-> 0, blue |-> 0]
        /\ nodes[i].push_strength = [red |-> 0, blue |-> 0]
        /\ nodes[i].agents_out = <<NeighboursNew(0, 0, 0, 0), NeighboursNew(0, 0, 0, 0)>>

\* C30: the universe Universe2D::new returns has the counter at 0, the
\* default hyperparameters (gamma 1/2, lambda 1/2, beta 1/100) and nodes whose
\* graffiti, push strength and outflow are all zero; the nodes stay so until
\* the first tick begins.
C30_FreshUniverse ==
    /\ ~panicked =>
          /\ iteration = 0
          /\ hyper_params = HyperParamsNew(<<1, 2>>, <<1, 2>>, <<1, 100>>)
          /\ AllNodesBlank
    /\ []((~panicked /\ iteration = 0 /\ pc = "idle") => AllNodesBlank)

\* A new 3 x 3 universe in which some node holds agents.
C30_Witness ==
    /\ ~panicked /\ iteration = 0 /\ pc = "idle" /\ size = 3
    /\ hyper_params = HyperParamsDefault
    /\ \E i \in Indices : nodes[i].red_agents + nodes[i].blue_agents > 0

\* The cumulative weights the last call compared with its draw reach the
\* draw at position i (1 top, 2 right, 3 bottom, 4 left): C[i] >= float * T,
\* the float being float/8.
DrawReached(i) ==
    CumSum(neighbours_out.neighbour_push_stength, i) * 8
        >= neighbours_out.float * neighbours_out.total

\* The first position at which the cumulative weight reaches the draw.
FirstReached == SetMin({i \in 1..4 : DrawReached(i)})

\* C24: a call of add_agent_to_random_cell with the sum of the weights as
\* total adds one to the counter of the first slot, in the order top, right,
\* bottom, left, whose cumulative weight is at least the draw, and leaves the
\* three other counters as they were.
C24_SmallestSlotReached ==
    (neighbours_out # <<>> /\ neighbours_out.calls > 0) =>
        /\ \E i \in 1..4 : DrawReached(i)
        /\ neighbours_out.counters.top
              = neighbours_out.before.top + (IF FirstReached = 1 THEN 1 ELSE 0)
        /\ neighbours_out.counters.right
              = neighbours_out.before.right + (IF FirstReached = 2 THEN 1 ELSE 0)
        /\ neighbours_out.counters.bottom
              = neighbours_out.before.bottom + (IF FirstReached = 3 THEN 1 ELSE 0)
        /\ neighbours_out.counters.left
              = neighbours_out.before.left + (IF FirstReached = 4 THEN 1 ELSE 0)

\* With four different cumulative weights, calls have put agents in the
\* third and in the fourth slot.
C24_Witness ==
    /\ neighbours_out # <<>> /\ neighbours_out.calls >= 2
    /\ \A i \in 1..4 : neighbours_out.neighbour_push_stength[i] > 0
    /\ neighbours_out.neighbour_push_stength[1] # neighbours_out.neighbour_push_stength[2]
    /\ neighbours_out.counters.bottom > 0
    /\ neighbours_out.counters.left > 0

\* C25: with a total weight above zero, a call of add_agent_to_random_cell
\* leaves the counter of every slot whose weight is zero as it was.
C25_ZeroWeightNeverChosen ==
    (neighbours_out # <<>> /\ neighbours_out.calls > 0 /\ neighbours_out.total > 0) =>
        \A i \in 1..4 :
            neighbours_out.neighbour_push_stength[i] = 0 =>
                NeighboursIntoIter(neighbours_out.counters)[i]
                    = NeighboursIntoIter(neighbours_out.before)[i]

\* C31: for every node of the universe, get_agents_with_species(Red) is the
\* node's red_agents and get_agents_with_species(Blue) is its blue_agents.
C31_GetAgentsWithSpecies ==
    \A i \in Indices :
        /\ GetAgentsWithSpecies(nodes[i], Red) = nodes[i].red_agents
        /\ GetAgentsWithSpecies(nodes[i], Blue) = nodes[i].blue_agents

\* The Neighbours value the iterator was made from.
Iterated == iter.it.neighbours

\* C32: the k-th call of next() returns Some(top), Some(right), Some(bottom),
\* Some(left) for k = 1, 2, 3, 4 and None for every later k; and when arm i
\* (0-based) of add_agent_to_random_cell has incremented a counter, the item
\* that is one larger than before is the one call i + 1 returns.
C32_IterationOrder ==
    iter # <<>> =>
        /\ \A k \in 1..Len(iter.items) :
              iter.items[k] = CASE k = 1 -> Some(Iterated.top)
                                [] k = 2 -> Some(Iterated.right)
                                [] k = 3 -> Some(Iterated.bottom)
                                [] k = 4 -> Some(Iterated.left)
                                [] OTHER -> None
        /\ \A k \in 1..Len(iter.items) :
              k <= 4 =>
                  iter.items[k]
                      = Some(NeighboursIntoIter(iter.base)[k]
                               + (IF k = iter.arm + 1 THEN 1 ELSE 0))

\* next() has been called six times on a value whose four fields differ,
\* after the arm for bottom had incremented it.
C32_Witness ==
    /\ iter # <<>> /\ Len(iter.items) >= 6
    /\ iter.arm = 2
    /\ Cardinality({Iterated.top, Iterated.right, Iterated.bottom, Iterated.left}) = 4
    /\ iter.items[6] = None

\* The cell of the walker2d universe in a row and a column: cells[i] was
\* made with x = i % size (its column) and y = i / size (its row).
CellAt(row, col) ==
    walker.cells[CHOOSE i \in DOMAIN walker.cells :
                     walker.cells[i].y = row /\ walker.cells[i].x = col]

\* C33: in every state of a walker2d universe of size S >= 1, neighbours_of
\* returns for every row and col below S the cells in row - 1, in row + 1, in
\* col - 1 and in col + 1 (all mod S), in this order, as they are now.
C33_NeighboursOfWraps ==
    (walker # <<>> /\ walker.size >= 1) =>
        \A row \in 0..(walker.size - 1), col \in 0..(walker.size - 1) :
            NeighboursOf(walker, row, col)
                = <<CellAt((row - 1) % walker.size, col),
                    CellAt((row + 1) % walker.size, col),
                    CellAt(row, (col - 1) % walker.size),
                    CellAt(row, (col + 1) % walker.size)>>

\* On a 3 x 3 universe the cell above row 0, in row 2, holds an agent that
\* the cell left of column 0 in that row does not hold.
C33_Witness ==
    /\ walker # <<>> /\ walker.size = 3
    /\ \E col \in 0..2 :
          /\ NeighboursOf(walker, 0, col)[1].agents # {}
          /\ NeighboursOf(walker, 0, col)[1].agents
                # NeighboursOf(walker, col, 0)[3].agents

\* Cell b is one of the four toroidal neighbours of cell a on a grid of
\* size sz: one step in x with the same y, or one step in y with the same x.
IsTorusNeighbour(a, b, sz) ==
    \/ /\ b.y = a.y
       /\ b.x \in {(a.x + 1) % sz, (a.x - 1) % sz}
    \/ /\ b.x = a.x
       /\ b.y \in {(a.y + 1) % sz, (a.y - 1) % sz}

\* C34: a tick(Serial) that returns puts every agent of every cell into a
\* cell that is a toroidal neighbour of the cell the agent was in.
C34_SerialMovesToNeighbour ==
    [][(/\ walker_call'.name = "tick" /\ walker_call'.arg = Serial
        /\ walker.size >= 1 /\ ~walker_panicked') =>
            \A i \in DOMAIN walker.cells :
                \A agent \in walker.cells[i].agents :
                    \E j \in DOMAIN walker'.cells :
                        /\ IsTorusNeighbour(walker.cells[i], walker'.cells[j], walker.size)
                        /\ agent \in walker'.cells[j].agents]_vars

\* The graffiti of a species that a tick started on the given universe
\* computes for cell i.
GraffitiComputed(self, i, species) ==
    MapGetOr0(IncrementGraffiti(self.cells[i], self.size).graffiti, species)

\* The agents of a species in a cell.
CellCount(cell, species) == Cardinality({agent \in cell.agents : agent.species = species})

\* C35: the graffiti the tick after a tick(Serial) computes for a cell and a
\* species is lambda times the graffiti that tick(Serial) computed for the
\* cell plus gamma times the cell's count of the species after it.
C35_WalkerGraffitiPersists ==
    [][(/\ walker_call'.name = "tick" /\ walker_call'.arg = Serial
        /\ walker.size >= 1 /\ ~walker_panicked') =>
            \A i \in DOMAIN walker.cells :
                \A species \in AgentSpecies :
                    GraffitiComputed(walker', i, species)
                        = F32Mul(GraffitiComputed(walker, i, species),
                                 walker.cells[i].hyper_params.lambda)
                            + F32Mul(F32FromU32(CellCount(walker'.cells[i], species)),
                                     walker.cells[i].hyper_params.gamma)]_vars

\* C39: a tick(Serial) leaves the generator of the universe in the state it
\* was in, and two agents of one species that were in one cell, which draw
\* from that one state against the same strengths, are in one cell after it.
C39_SerialKeepsPrng ==
    [][(/\ walker_call'.name = "tick" /\ walker_call'.arg = Serial
        /\ walker.size >= 1) =>
            /\ walker'.prng = walker.prng
            /\ ~walker_panicked' =>
                  \A i \in DOMAIN walker.cells :
                      \A a \in walker.cells[i].agents, b \in walker.cells[i].agents :
                          a.species = b.species =>
                              \E j \in DOMAIN walker'.cells :
                                  {a, b} \subseteq walker'.cells[j].agents]_vars

\* Two tick(Serial) calls have returned on a universe of size 3 in which a
\* cell still holds two agents of one species.
C39_Witness ==
    /\ walker # <<>> /\ walker.size = 3 /\ walker.iteration >= 2
    /\ walker_call.name = "tick" /\ walker_call.arg = Serial /\ ~walker_panicked
    /\ \E i \in DOMAIN walker.cells : \E species \in AgentSpecies :
          CellCount(walker.cells[i], species) >= 2

\* A node with its outflow buffer emptied.
WithoutOutflow(node) ==
    [node EXCEPT !.agents_out = <<NeighboursNew(0, 0, 0, 0), NeighboursNew(0, 0, 0, 0)>>]

\* The agents of buffer s (1 red, 2 blue) in the outflow buffers of the
\* first n nodes.
RECURSIVE SumOutflow(_, _, _)
SumOutflow(ns, n, s) ==
    IF n = 0 THEN 0 ELSE SumOutflow(ns, n - 1, s) + SlotsSum(ns[n - 1].agents_out[s])

\* C36: the outflow buffer a node has after phase 1 is the one phase 1 gives
\* the same node with an empty buffer, and when phase 2 begins the buffers of
\* all nodes hold, for each species, as many agents as the nodes held when
\* the tick began: nothing of an earlier tick's outflow is left in them.
C36_OutflowRebuiltFromZero ==
    /\ pc = "out" =>
          \A i \in Indices :
              phase_done[i] = 2 =>
                  nodes[i].agents_out
                      = MoveAgentsOut(WithoutOutflow(nodes_with_graffiti[i]),
                                      nodes_with_graffiti).node.agents_out
    /\ (pc = "in" /\ size >= 1) =>
          /\ SumOutflow(nodes_with_agents_out, Count(nodes_with_agents_out), 1)
                = TotalAgents(tick_start, Red)
          /\ SumOutflow(nodes_with_agents_out, Count(nodes_with_agents_out), 2)
                = TotalAgents(tick_start, Blue)

\* In the second tick phase 2 begins, and a node that holds agents and whose
\* buffer held the first tick's outflow has a new buffer.
C36_Witness ==
    /\ pc = "in" /\ iteration = 1 /\ size >= 2
    /\ \E i \in Indices :
          /\ tick_start[i].red_agents + tick_start[i].blue_agents > 0
          /\ SlotsSum(tick_start[i].agents_out[1]) + SlotsSum(tick_start[i].agents_out[2]) > 0
          /\ nodes_with_agents_out[i].agents_out # tick_start[i].agents_out

\* The colour of the cell of a node: (x + y) mod 2, the node's index being
\* y * size + x.
Colour(index) == ((index % size) + (index \div size)) % 2

\* The agents of a species on the cells of a colour among the first n nodes.
RECURSIVE SumColour(_, _, _, _)
SumColour(ns, n, colour, species) ==
    IF n = 0 THEN 0
    ELSE SumColour(ns, n - 1, colour, species)
           + (IF Colour(n - 1) = colour THEN AgentsOf(ns[n - 1], species) ELSE 0)

\* C37: on a grid of even size, when a tick has returned, the agents of each
\* species on the cells of one colour are as many as were on the cells of
\* the other colour when the tick began.
C37_ColourAlternates ==
    (pc = "idle" /\ iteration >= 1 /\ ~panicked /\ size >= 2 /\ size % 2 = 0) =>
        \A species \in AgentSpecies, colour \in {0, 1} :
            SumColour(nodes, Count(nodes), colour, species)
                = SumColour(tick_start, Count(tick_start), 1 - colour, species)

\* Two ticks have returned on a grid of even size on which the two colours
\* held different numbers of red agents when the last tick began.
C37_Witness ==
    /\ pc = "idle" /\ iteration >= 2 /\ ~panicked /\ size >= 2 /\ size % 2 = 0
    /\ SumColour(tick_start, Count(tick_start), 0, Red)
          # SumColour(tick_start, Count(tick_start), 1, Red)

\* C38: while phase 1 runs, no two distinct nodes hand the same seed to
\* Rand32::new in get_prng.
C38_SeedsDiffer ==
    (pc = "out" /\ ~panicked) =>
        \A i \in Indices, j \in Indices :
            i # j => GetPrngSeed(nodes_with_graffiti[i]) # GetPrngSeed(nodes_with_graffiti[j])

====
